---- MODULE Spec2Model ----
(***************************************************************************)
(* Model of src/src/pages/BookingScreen.tsx: the booking form's state      *)
(* hooks, the field setters wired to the inputs, the handleBooking         *)
(* handler and the settlement of apiService.bookConsultation.              *)
(*                                                                         *)
(* JavaScript is single-threaded: the synchronous part of handleBooking   *)
(* (up to the await on line 66, or up to an early return) is one step, and *)
(* the continuation after the await (lines 81-91) is another.              *)
(***************************************************************************)
EXTENDS Bags, FiniteSets, Integers, Sequences, TLC

VARIABLES
    selectedDate,         \* line 11
    selectedTime,         \* line 12
    consultationType,     \* line 13
    addressStreet,        \* line 14
    addressNumber,        \* line 15
    addressNeighborhood,  \* line 16
    addressCity,          \* line 17
    addressState,         \* line 18
    notes,                \* line 19
    isLoading,            \* line 20
    currentUser,          \* what apiService.getCurrentUser() returns (line 60)
    pending,              \* bag of requests handed to bookConsultation, not yet settled
    last,                 \* what the most recently finished handleBooking run did
    typed,                \* e.target.value of the last change event of each address input
    gen                   \* the run of getNextDays being followed (lines 27-42)

draft == <<selectedDate, selectedTime, consultationType, addressStreet,
           addressNumber, addressNeighborhood, addressCity, addressState, notes>>

vars == <<selectedDate, selectedTime, consultationType, addressStreet,
          addressNumber, addressNeighborhood, addressCity, addressState, notes,
          isLoading, currentUser, pending, last, typed, gen>>

----------------------------------------------------------------------------
(* Bounds and input domains *)

\* at most this many bookConsultation calls are outstanding at once
MaxInFlight == 2

\* JavaScript's undefined / null, kept apart from every string a user can type
Undefined == "<undefined>"
Null == "<null>"

\* values offered by getNextDays(9) (one of them) and by timeSlots (one of them)
DayValues == {"2025-03-10"}
timeSlots == {"09:00"}

ConsultationTypes == {"presencial", "online"}

StreetInputs == {"", "Rua A"}
NumberInputs == {"", "12"}
NeighborhoodInputs == {"", "Centro"}
CityInputs == {"", "Recife"}
StateInputs == {"", "pe", "PE"}
NotesInputs == {"", "joelho"}

\* what apiService.getCurrentUser() can return: null, or a user given by its id
CurrentUsers == {Null, "p1"}

physiotherapist ==
    [id |-> "f1", name |-> "Ana", specialty |-> "Ortopedia", price |-> 150]

\* String.prototype.toUpperCase on the strings the state input can hold
ToUpperCase(s) ==
    CASE s = "pe" -> "PE"
      [] OTHER -> s

----------------------------------------------------------------------------
(* Outcomes of apiService.bookConsultation *)

Resolved(success, error) == [kind |-> "resolved", success |-> success, error |-> error]
Threw == [kind |-> "threw", success |-> FALSE, error |-> Undefined]
NoResult == [kind |-> "none", success |-> FALSE, error |-> Undefined]

PortResults ==
    { Resolved(TRUE, Undefined),
      Resolved(FALSE, "slot taken"),
      Resolved(FALSE, ""),
      Resolved(FALSE, Undefined),
      Threw }

----------------------------------------------------------------------------
(* Alert texts *)

AlertSelectDateTime == "Por favor, selecione data e horário"
AlertFillAddress == "Por favor, preencha todos os campos de endereço"
AlertUserNotFound == "Usuário não encontrado"
AlertBooked == "Consulta agendada com sucesso!"
AlertBookingError == "Erro ao agendar consulta"
AlertUnexpectedError == "Erro inesperado ao agendar consulta"

----------------------------------------------------------------------------
(* handleBooking, lines 44-92: its pure parts *)

\* !s for a string s
Falsy(s) == s = ""

ValidationAlertNoTimeCheck ==
    IF Falsy(selectedDate)
    THEN AlertSelectDateTime
    ELSE IF consultationType = "presencial"
            /\ (\/ Falsy(addressStreet) \/ Falsy(addressNumber)
                \/ Falsy(addressNeighborhood) \/ Falsy(addressCity)
                \/ Falsy(addressState))
         THEN AlertFillAddress
         ELSE Undefined

ValidationAlertIgnoringType ==
    IF Falsy(selectedDate) \/ Falsy(selectedTime)
    THEN AlertSelectDateTime
    ELSE IF \/ Falsy(addressStreet) \/ Falsy(addressNumber)
            \/ Falsy(addressNeighborhood) \/ Falsy(addressCity)
            \/ Falsy(addressState)
         THEN AlertFillAddress
         ELSE Undefined

\* lines 45-55: the alert the validation raises before returning, or
\* Undefined when both checks pass
ValidationAlert ==
    IF Falsy(selectedDate) \/ Falsy(selectedTime)
    THEN AlertSelectDateTime
    ELSE IF consultationType = "presencial"
            /\ (\/ Falsy(addressStreet) \/ Falsy(addressNumber)
                \/ Falsy(addressNeighborhood) \/ Falsy(addressCity)
                \/ Falsy(addressState))
         THEN AlertFillAddress
         ELSE Undefined

NoCurrentUserNeverMissing == FALSE

\* line 61: !currentUser
NoCurrentUser == currentUser = Null

BuildRequestEmptyStrings ==
    [ patientId |-> currentUser,
      physiotherapistId |-> physiotherapist.id,
      physiotherapistName |-> physiotherapist.name,
      date |-> selectedDate,
      time |-> selectedTime,
      type |-> consultationType,
      specialty |-> physiotherapist.specialty,
      address |-> IF consultationType = "presencial"
                  THEN addressStreet \o ", " \o addressNumber \o " - " \o addressNeighborhood
                  ELSE "",
      city |-> IF consultationType = "presencial" THEN addressCity ELSE "",
      state |-> IF consultationType = "presencial" THEN addressState ELSE "",
      price |-> physiotherapist.price,
      notes |-> notes ]

\* lines 66-79: the argument of apiService.bookConsultation
BuildRequest ==
    [ patientId |-> currentUser,
      physiotherapistId |-> physiotherapist.id,
      physiotherapistName |-> physiotherapist.name,
      date |-> selectedDate,
      time |-> selectedTime,
      type |-> consultationType,
      specialty |-> physiotherapist.specialty,
      address |-> IF consultationType = "presencial"
                  THEN addressStreet \o ", " \o addressNumber \o " - " \o addressNeighborhood
                  ELSE Undefined,
      city |-> IF consultationType = "presencial" THEN addressCity ELSE Undefined,
      state |-> IF consultationType = "presencial" THEN addressState ELSE Undefined,
      price |-> physiotherapist.price,
      notes |-> notes ]

CallsOnSuccessOnAnyResult(result) == result.kind = "resolved"

\* lines 81-83: onSuccess() runs in the result.success branch only
CallsOnSuccess(result) == result.kind = "resolved" /\ result.success

ResultAlertIgnoringError(result) ==
    IF result.kind = "threw"
    THEN AlertUnexpectedError
    ELSE IF result.success
         THEN AlertBooked
         ELSE AlertBookingError

\* lines 81-88: the alert shown once the call has settled;
\* result.error || '...' falls back on undefined and on the empty string
ResultAlert(result) ==
    IF result.kind = "threw"
    THEN AlertUnexpectedError
    ELSE IF result.success
         THEN AlertBooked
         ELSE IF result.error # Undefined /\ ~Falsy(result.error)
              THEN result.error
              ELSE AlertBookingError

FinallyRunsUnlessThrown(result) == result.kind # "threw"

\* lines 89-91: the finally block runs however the try block is left
FinallyRuns(result) == TRUE

BookButtonDisabledAfterRun ==
    Falsy(selectedDate) \/ Falsy(selectedTime) \/ isLoading \/ last.alert # Undefined

\* line 295: the Book button's disabled attribute
BookButtonDisabled == Falsy(selectedDate) \/ Falsy(selectedTime) \/ isLoading

\* the record kept of a finished run of handleBooking
Finished(alert, result, entered, left, invoked, onSuccess) ==
    [ alert |-> alert,          \* the text given to alert()
      result |-> result,        \* what bookConsultation settled with
      entered |-> entered,      \* setIsLoading(true) ran (line 57)
      left |-> left,            \* times setIsLoading(false) ran (line 90)
      invoked |-> invoked,      \* times bookConsultation was called (line 66)
      onSuccess |-> onSuccess ] \* times onSuccess() was called (line 83)

NoRun == Finished(Undefined, NoResult, FALSE, 0, 0, 0)

\* the address inputs before any change event
NothingTyped == [street |-> "", number |-> "", neighborhood |-> "", city |-> "", state |-> ""]

\* no run of getNextDays is being followed
NotFollowed == [now |-> 0, offset |-> 0, count |-> 0, i |-> 1, days |-> <<>>, pc |-> "idle"]

----------------------------------------------------------------------------
(* Initial state: the useState defaults, lines 11-20 *)

InitForm ==
    /\ selectedDate = ""
    /\ selectedTime = ""
    /\ consultationType = "presencial"
    /\ addressStreet = ""
    /\ addressNumber = ""
    /\ addressNeighborhood = ""
    /\ addressCity = ""
    /\ addressState = ""
    /\ notes = ""
    /\ isLoading = FALSE
    /\ currentUser \in CurrentUsers
    /\ pending = EmptyBag
    /\ last = NoRun
    /\ typed = NothingTyped

Init == InitForm /\ gen = NotFollowed

----------------------------------------------------------------------------
(* The inputs' handlers *)

\* line 137
setSelectedDate(value) ==
    /\ selectedDate' = value
    /\ UNCHANGED <<selectedTime, consultationType, addressStreet, addressNumber,
                   addressNeighborhood, addressCity, addressState, notes,
                   isLoading, currentUser, pending, last, typed, gen>>

setSelectedTimeResettingRun(value) ==
    /\ selectedTime' = value
    /\ last' = NoRun
    /\ UNCHANGED <<selectedDate, consultationType, addressStreet, addressNumber,
                   addressNeighborhood, addressCity, addressState, notes,
                   isLoading, currentUser, pending, typed, gen>>

\* line 157
setSelectedTime(value) ==
    /\ selectedTime' = value
    /\ UNCHANGED <<selectedDate, consultationType, addressStreet, addressNumber,
                   addressNeighborhood, addressCity, addressState, notes,
                   isLoading, currentUser, pending, last, typed, gen>>

setConsultationTypeClearingAddress(type) ==
    /\ consultationType' = type
    /\ addressStreet' = IF type = "online" THEN "" ELSE addressStreet
    /\ addressNumber' = IF type = "online" THEN "" ELSE addressNumber
    /\ addressNeighborhood' = IF type = "online" THEN "" ELSE addressNeighborhood
    /\ addressCity' = IF type = "online" THEN "" ELSE addressCity
    /\ addressState' = IF type = "online" THEN "" ELSE addressState
    /\ UNCHANGED <<selectedDate, selectedTime, notes, isLoading, currentUser, pending, last, typed, gen>>

\* lines 175 and 187
setConsultationType(type) ==
    /\ consultationType' = type
    /\ UNCHANGED <<selectedDate, selectedTime, addressStreet, addressNumber,
                   addressNeighborhood, addressCity, addressState, notes,
                   isLoading, currentUser, pending, last, typed, gen>>

\* line 202: the address inputs exist only while the type is presencial
AddressInputsRendered == consultationType = "presencial"

\* line 211
setAddressStreet(value) ==
    /\ AddressInputsRendered
    /\ addressStreet' = value
    /\ typed' = [typed EXCEPT !.street = value]
    /\ UNCHANGED <<selectedDate, selectedTime, consultationType, addressNumber,
                   addressNeighborhood, addressCity, addressState, notes,
                   isLoading, currentUser, pending, last, gen>>

\* line 221
setAddressNumber(value) ==
    /\ AddressInputsRendered
    /\ addressNumber' = value
    /\ typed' = [typed EXCEPT !.number = value]
    /\ UNCHANGED <<selectedDate, selectedTime, consultationType, addressStreet,
                   addressNeighborhood, addressCity, addressState, notes,
                   isLoading, currentUser, pending, last, gen>>

\* line 233
setAddressNeighborhood(value) ==
    /\ AddressInputsRendered
    /\ addressNeighborhood' = value
    /\ typed' = [typed EXCEPT !.neighborhood = value]
    /\ UNCHANGED <<selectedDate, selectedTime, consultationType, addressStreet,
                   addressNumber, addressCity, addressState, notes,
                   isLoading, currentUser, pending, last, gen>>

\* line 243
setAddressCity(value) ==
    /\ AddressInputsRendered
    /\ addressCity' = value
    /\ typed' = [typed EXCEPT !.city = value]
    /\ UNCHANGED <<selectedDate, selectedTime, consultationType, addressStreet,
                   addressNumber, addressNeighborhood, addressState, notes,
                   isLoading, currentUser, pending, last, gen>>

setAddressStateVerbatim(value) ==
    /\ AddressInputsRendered
    /\ addressState' = value
    /\ typed' = [typed EXCEPT !.state = value]
    /\ UNCHANGED <<selectedDate, selectedTime, consultationType, addressStreet,
                   addressNumber, addressNeighborhood, addressCity, notes,
                   isLoading, currentUser, pending, last, gen>>

\* line 255: the typed value is upper-cased before it is stored
setAddressState(value) ==
    /\ AddressInputsRendered
    /\ addressState' = ToUpperCase(value)
    /\ typed' = [typed EXCEPT !.state = value]
    /\ UNCHANGED <<selectedDate, selectedTime, consultationType, addressStreet,
                   addressNumber, addressNeighborhood, addressCity, notes,
                   isLoading, currentUser, pending, last, gen>>

setNotesCancellingRequest(value) ==
    /\ notes' = value
    /\ pending' = EmptyBag
    /\ isLoading' = FALSE
    /\ UNCHANGED <<selectedDate, selectedTime, consultationType, addressStreet,
                   addressNumber, addressNeighborhood, addressCity, addressState,
                   currentUser, last, typed, gen>>

\* line 270
setNotes(value) ==
    /\ notes' = value
    /\ UNCHANGED <<selectedDate, selectedTime, consultationType, addressStreet,
                   addressNumber, addressNeighborhood, addressCity, addressState,
                   isLoading, currentUser, pending, last, typed, gen>>

\* the session behind apiService.getCurrentUser() (line 60) is outside the
\* component: the patient may sign in or out at any time
sessionChanges(user) ==
    /\ currentUser' = user
    /\ UNCHANGED <<draft, isLoading, pending, last, typed, gen>>

----------------------------------------------------------------------------
(* handleBooking, lines 44-92 *)

\* lines 44-66: the synchronous part of a call
handleBooking ==
    IF ValidationAlert # Undefined
    THEN \* lines 45-55: alert and return, before setIsLoading(true)
         /\ last' = Finished(ValidationAlert, NoResult, FALSE, 0, 0, 0)
         /\ UNCHANGED <<draft, isLoading, currentUser, pending, typed, gen>>
    ELSE IF NoCurrentUser
         THEN \* lines 57-64 and 90: setIsLoading(true), alert, return
              \* through the finally block
              /\ last' = Finished(AlertUserNotFound, NoResult, TRUE, 1, 0, 0)
              /\ isLoading' = FALSE
              /\ UNCHANGED <<draft, currentUser, pending, typed, gen>>
         ELSE \* lines 57-79: setIsLoading(true), then the call is awaited
              /\ BagCardinality(pending) < MaxInFlight
              /\ isLoading' = TRUE
              /\ pending' = pending (+) SetToBag({BuildRequest})
              /\ UNCHANGED <<draft, currentUser, last, typed, gen>>

\* line 294: a click on the Book button, which line 295 allows only while
\* the button is not disabled
BookButtonClick ==
    /\ ~BookButtonDisabled
    /\ handleBooking

\* handleBooking run without passing through the button's disabled
\* attribute: the function itself holds no check of isLoading
handleBookingCall == handleBooking

bookConsultationSettlesRetrying(request, result) ==
    /\ BagIn(request, pending)
    /\ pending' = IF result.kind = "threw"
                  THEN pending
                  ELSE pending (-) SetToBag({request})
    /\ last' = Finished(ResultAlert(result), result, TRUE,
                        IF FinallyRuns(result) THEN 1 ELSE 0, 1,
                        IF CallsOnSuccess(result) THEN 1 ELSE 0)
    /\ isLoading' = IF FinallyRuns(result) THEN FALSE ELSE isLoading
    /\ UNCHANGED <<draft, currentUser, typed, gen>>

bookConsultationSettlesResettingForm(request, result) ==
    /\ BagIn(request, pending)
    /\ pending' = pending (-) SetToBag({request})
    /\ last' = Finished(ResultAlert(result), result, TRUE,
                        IF FinallyRuns(result) THEN 1 ELSE 0, 1,
                        IF CallsOnSuccess(result) THEN 1 ELSE 0)
    /\ isLoading' = IF FinallyRuns(result) THEN FALSE ELSE isLoading
    /\ selectedDate' = ""
    /\ selectedTime' = ""
    /\ UNCHANGED <<consultationType, addressStreet, addressNumber,
                   addressNeighborhood, addressCity, addressState, notes,
                   currentUser, typed, gen>>

\* lines 66 and 81-91: one outstanding call settles with result and the
\* handler resumes after its await
bookConsultationSettles(request, result) ==
    /\ BagIn(request, pending)
    /\ pending' = pending (-) SetToBag({request})
    /\ last' = Finished(ResultAlert(result), result, TRUE,
                        IF FinallyRuns(result) THEN 1 ELSE 0, 1,
                        IF CallsOnSuccess(result) THEN 1 ELSE 0)
    /\ isLoading' = IF FinallyRuns(result) THEN FALSE ELSE isLoading
    /\ UNCHANGED <<draft, currentUser, typed, gen>>

----------------------------------------------------------------------------

Next ==
    \/ \E value \in DayValues : setSelectedDate(value)
    \/ \E value \in timeSlots : setSelectedTime(value)
    \/ \E type \in ConsultationTypes : setConsultationType(type)
    \/ \E value \in StreetInputs : setAddressStreet(value)
    \/ \E value \in NumberInputs : setAddressNumber(value)
    \/ \E value \in NeighborhoodInputs : setAddressNeighborhood(value)
    \/ \E value \in CityInputs : setAddressCity(value)
    \/ \E value \in StateInputs : setAddressState(value)
    \/ \E value \in NotesInputs : setNotes(value)
    \/ \E user \in CurrentUsers : sessionChanges(user)
    \/ BookButtonClick
    \/ handleBookingCall
    \/ \E request \in BagToSet(pending), result \in PortResults :
           bookConsultationSettles(request, result)

Spec == Init /\ [][Next]_vars

\* the scheduling service answers every call: each outstanding call
\* eventually resolves or throws
FairSpec ==
    Spec /\ WF_vars(\E request \in BagToSet(pending), result \in PortResults :
                        bookConsultationSettles(request, result))

\* the component driven through its rendered elements only: every run of
\* handleBooking starts from a click on the Book button
NextUI ==
    \/ \E value \in DayValues : setSelectedDate(value)
    \/ \E value \in timeSlots : setSelectedTime(value)
    \/ \E type \in ConsultationTypes : setConsultationType(type)
    \/ \E value \in StreetInputs : setAddressStreet(value)
    \/ \E value \in NumberInputs : setAddressNumber(value)
    \/ \E value \in NeighborhoodInputs : setAddressNeighborhood(value)
    \/ \E value \in CityInputs : setAddressCity(value)
    \/ \E value \in StateInputs : setAddressState(value)
    \/ \E value \in NotesInputs : setNotes(value)
    \/ \E user \in CurrentUsers : sessionChanges(user)
    \/ BookButtonClick
    \/ \E request \in BagToSet(pending), result \in PortResults :
           bookConsultationSettles(request, result)

SpecUI == Init /\ [][NextUI]_vars

----------------------------------------------------------------------------
(* getNextDays, lines 27-42 *)

\* the largest count getNextDays is followed with
MaxCount == 9

Counts == -1 .. MaxCount

HoursPerDay == 24

\* values of new Date(), in hours since 1970-01-01T00:00Z: 2024-12-30 and
\* 2025-02-27 (UTC), at 00h, 02h, 12h and 22h
Instants == { day * HoursPerDay + hour : day \in {20087, 20146}, hour \in {0, 2, 12, 22} }

\* local time minus UTC, in hours
Offsets == {-3, 0, 9}

\* the proleptic Gregorian date <<year, month, day>> of a day number
\* (days since 1970-01-01), as Date computes it
CivilFromDays(days) ==
    LET z == days + 719468
        era == z \div 146097
        doe == z - era * 146097
        yoe == (doe - doe \div 1460 + doe \div 36524 - doe \div 146096) \div 365
        doy == doe - (365 * yoe + yoe \div 4 - yoe \div 100)
        mp == (5 * doy + 2) \div 153
        d == doy - (153 * mp + 2) \div 5 + 1
        m == IF mp < 10 THEN mp + 3 ELSE mp - 9
        y == yoe + era * 400 + (IF m <= 2 THEN 1 ELSE 0)
    IN  <<y, m, d>>

Pad2(n) == IF n < 10 THEN "0" \o ToString(n) ELSE ToString(n)

\* YYYY-MM-DD
IsoDate(ymd) == ToString(ymd[1]) \o "-" \o Pad2(ymd[2]) \o "-" \o Pad2(ymd[3])

\* getDate() and the other local getters read the instant shifted by the
\* zone's offset
LocalDay(t, offset) == (t + offset) \div HoursPerDay
LocalHour(t, offset) == (t + offset) % HoursPerDay

\* line 31: date.setDate(date.getDate() + i) moves the local calendar day
\* and keeps the local time of day
setDate(t, offset, i) ==
    (LocalDay(t, offset) + i) * HoursPerDay + LocalHour(t, offset) - offset

\* line 33: date.toISOString().split('T')[0] is the date in UTC
toISODate(t) == IsoDate(CivilFromDays(t \div HoursPerDay))

WeekdaysShort == <<"dom.", "seg.", "ter.", "qua.", "qui.", "sex.", "sáb.">>
MonthsShort == <<"jan.", "fev.", "mar.", "abr.", "mai.", "jun.",
                 "jul.", "ago.", "set.", "out.", "nov.", "dez.">>

\* lines 34-38: toLocaleDateString('pt-BR', {weekday: 'short', day:
\* 'numeric', month: 'short'}) formats the local date; 1970-01-01 was a
\* Thursday
toLocaleDateString(t, offset) ==
    LET day == LocalDay(t, offset)
        ymd == CivilFromDays(day)
    IN  WeekdaysShort[((day + 4) % 7) + 1] \o ", " \o ToString(ymd[3])
            \o " de " \o MonthsShort[ymd[2]]

\* a call getNextDays(count) starts: line 28
InitDays ==
    /\ InitForm
    /\ gen \in [now : Instants, offset : Offsets, count : Counts,
                i : {1}, days : {<<>>}, pc : {"loop"}]

formVars == <<draft, isLoading, currentUser, pending, last, typed>>

\* lines 29-40: one turn of the loop
getNextDaysLoop ==
    /\ gen.pc = "loop"
    /\ gen.i <= gen.count
    /\ LET date == setDate(gen.now, gen.offset, gen.i)
       IN  gen' = [gen EXCEPT
                     !.days = Append(@, [value |-> toISODate(date),
                                         label |-> toLocaleDateString(date, gen.offset)]),
                     !.i = @ + 1]
    /\ UNCHANGED formVars

\* lines 29 and 41: the loop condition fails and days is returned
getNextDaysReturn ==
    /\ gen.pc = "loop"
    /\ ~(gen.i <= gen.count)
    /\ gen' = [gen EXCEPT !.pc = "returned"]
    /\ UNCHANGED formVars

NextDays == getNextDaysLoop \/ getNextDaysReturn

SpecDays == InitDays /\ [][NextDays]_vars

----------------------------------------------------------------------------
(* Vocabulary of the specification, in terms of the component's state *)

\* canSubmit as the specification states it
canSubmit ==
    /\ selectedDate # ""
    /\ selectedTime # ""
    /\ \/ consultationType = "online"
       \/ /\ addressStreet # ""
          /\ addressNumber # ""
          /\ addressNeighborhood # ""
          /\ addressCity # ""
          /\ addressState # ""

ValidationAlerts == {AlertSelectDateTime, AlertFillAddress}

InFlight == BagCardinality(pending)

\* a step in which a run of handleBooking ended without awaiting the port
ReturnsAtOnce == last' # last /\ pending' = pending

\* a step in which a run of handleBooking handed a request to the port
InvokesPort == BagCardinality(pending') > BagCardinality(pending)

\* the last finished run ended on a failure reported by the port
PortFailed == last.result.kind = "resolved" /\ ~last.result.success

PortThrew == last.result.kind = "threw"

----------------------------------------------------------------------------
(* Claims *)

\* C1: at most one submission is in flight: a handleBooking call made while
\* an earlier bookConsultation call has not settled does not invoke
\* bookConsultation again.
C1_AtMostOneInFlight == InFlight <= 1

\* C2: when the date or the time is unselected, or the type is presencial
\* and one of the five address fields is empty, a handleBooking call ends
\* with a validation alert, without setIsLoading(true) and without a call
\* of bookConsultation.
C2_InvalidDraftNeverSubmitted ==
    [][~canSubmit =>
          /\ ~InvokesPort
          /\ (isLoading' => isLoading)
          /\ (ReturnsAtOnce =>
                 /\ last'.alert \in ValidationAlerts
                 /\ ~last'.entered
                 /\ last'.invoked = 0
                 /\ last'.onSuccess = 0)]_vars

C2_Witness ==
    /\ last.alert = AlertFillAddress
    /\ ~last.entered
    /\ consultationType = "presencial"
    /\ selectedDate # "" /\ selectedTime # ""
    /\ addressStreet # "" /\ addressCity = ""
    /\ pending = EmptyBag

\* C3: the validation inside handleBooking lets a draft through iff date
\* and time are selected and (the type is online or all five address fields
\* are non-empty).
C3_ValidationIsCanSubmit ==
    [][/\ (InvokesPort => canSubmit)
       /\ (ReturnsAtOnce => (last'.alert \in ValidationAlerts <=> ~canSubmit))]_vars

C3_Witness ==
    /\ consultationType = "online"
    /\ addressStreet # "" /\ addressCity = ""
    /\ \E r \in BagToSet(pending) : r.type = "online"
    /\ last.alert = AlertFillAddress

\* C4: the Book button is enabled only if the validation of handleBooking
\* passes: the two layers agree on every draft.
C4_ButtonEnabledOnlyIfValid == ~BookButtonDisabled => canSubmit

\* C5: once isLoading is set it is eventually reset, and every finished run
\* that set it has reset it exactly once, however the port call ended.
C5_LeavesSubmitting ==
    /\ isLoading ~> ~isLoading
    /\ [](last.entered => last.left = 1)

C5_Witness ==
    /\ PortThrew
    /\ last.entered /\ last.left = 1
    /\ ~isLoading
    /\ pending = EmptyBag

\* C6: onSuccess is called exactly once by a run whose port call resolved
\* with success, and never by a run that failed validation, found no user,
\* got a non-success result or saw the call throw.
C6_OnSuccessOncePerSuccess ==
    last.onSuccess =
        IF last.result.kind = "resolved" /\ last.result.success THEN 1 ELSE 0

C6_Witness ==
    /\ last.result = Resolved(TRUE, Undefined)
    /\ last.alert = AlertBooked
    /\ last.onSuccess = 1

\* C7 as stated: a non-success result ends in the port's error message if
\* the result carries one and in the generic message otherwise; a thrown
\* call ends in the unexpected-error message; no failure ends in success.
C7_ReasonIsPortMessageIfPresent ==
    /\ PortFailed =>
          last.alert = IF last.result.error # Undefined
                       THEN last.result.error
                       ELSE AlertBookingError
    /\ PortThrew => last.alert = AlertUnexpectedError
    /\ PortFailed \/ PortThrew => last.alert # AlertBooked /\ last.onSuccess = 0

\* C7 amended: the port's error message is used if the result carries one
\* that is not the empty string; the generic message otherwise.
C7_ReasonIsPortMessageIfNonEmpty ==
    /\ PortFailed =>
          last.alert = IF last.result.error # Undefined /\ last.result.error # ""
                       THEN last.result.error
                       ELSE AlertBookingError
    /\ PortThrew => last.alert = AlertUnexpectedError
    /\ PortFailed \/ PortThrew => last.alert # AlertBooked /\ last.onSuccess = 0

C7_Witness ==
    /\ last.result = Resolved(FALSE, "slot taken")
    /\ last.alert = "slot taken"

\* C8: with a valid draft and no current user, handleBooking ends with the
\* user-not-found alert, which differs from every other alert, without a
\* call of bookConsultation; no request carries anything but the id of a
\* signed-in user.
C8_NoUserNeverSubmitted ==
    /\ [][currentUser = Null =>
             /\ ~InvokesPort
             /\ (canSubmit /\ ReturnsAtOnce =>
                    /\ last'.alert = AlertUserNotFound
                    /\ last'.invoked = 0
                    /\ last'.onSuccess = 0)]_vars
    /\ [](/\ AlertUserNotFound \notin
               ValidationAlerts \cup {AlertBooked, AlertBookingError, AlertUnexpectedError}
          /\ \A r \in BagToSet(pending) : r.patientId \in CurrentUsers \ {Null})

C8_Witness ==
    /\ last.alert = AlertUserNotFound
    /\ last.invoked = 0
    /\ currentUser = Null
    /\ canSubmit
    /\ pending = EmptyBag

\* C9: a request handed to bookConsultation has address, city and state
\* undefined when the type is online at that moment, and built from the
\* five non-empty address fields when it is presencial; its notes are the
\* draft's notes, the empty string included.
C9_RequestAddressFollowsType ==
    [][\A r \in BagToSet(pending') :
          CopiesIn(r, pending') > CopiesIn(r, pending) =>
              /\ r.type = consultationType
              /\ r.notes = notes
              /\ consultationType = "online" =>
                    /\ r.address = Undefined
                    /\ r.city = Undefined
                    /\ r.state = Undefined
              /\ consultationType = "presencial" =>
                    /\ addressStreet # "" /\ addressNumber # ""
                    /\ addressNeighborhood # "" /\ addressCity # ""
                    /\ addressState # ""
                    /\ r.address = addressStreet \o ", " \o addressNumber
                                       \o " - " \o addressNeighborhood
                    /\ r.city = addressCity
                    /\ r.state = addressState]_vars

C9_Witness ==
    /\ \E r \in BagToSet(pending) :
          /\ r.type = "online"
          /\ r.address = Undefined /\ r.city = Undefined /\ r.state = Undefined
          /\ r.notes = ""
    /\ \E r \in BagToSet(pending) :
          /\ r.type = "presencial"
          /\ r.address = "Rua A, 12 - Centro"
          /\ r.city = "Recife"
          /\ r.state = "PE"
          /\ r.notes = "joelho"

\* C10: a step that changes the consultation type changes nothing else:
\* the five address fields, and every other field, keep their values.
C10_TypeSwitchKeepsAddress ==
    [][consultationType' # consultationType =>
          UNCHANGED <<selectedDate, selectedTime, addressStreet, addressNumber,
                      addressNeighborhood, addressCity, addressState, notes,
                      isLoading, currentUser, pending, last, typed, gen>>]_vars

C10_Witness ==
    /\ consultationType = "online"
    /\ addressStreet = "Rua A"
    /\ addressNumber = "12"
    /\ addressNeighborhood = "Centro"
    /\ addressCity = "Recife"
    /\ addressState = "PE"

\* C11: a step that changes the draft changes exactly one of its nine
\* fields and leaves isLoading, the outstanding calls and the record of the
\* last finished run as they were, whatever the submission state is.
C11_EditChangesOneField ==
    [][draft' # draft =>
          /\ Cardinality({k \in 1..Len(draft) : draft'[k] # draft[k]}) = 1
          /\ UNCHANGED <<isLoading, currentUser, pending, last>>]_vars

C11_Witness ==
    /\ isLoading
    /\ last.alert = AlertBooked
    /\ \E r \in BagToSet(pending) : r.notes # notes

\* C12: after a run that ended in failure or in success, a click on the
\* Book button with a valid draft and a signed-in user starts a new
\* submission (isLoading set, the port invoked), and an outstanding call
\* can settle with success, ending in the success alert.
C12_NewAttemptAfterFinishedRun ==
    /\ (last.alert # Undefined /\ ~isLoading /\ canSubmit /\ currentUser # Null) =>
          ENABLED (BookButtonClick /\ InvokesPort /\ isLoading')
    /\ pending # EmptyBag =>
          ENABLED (/\ \E request \in BagToSet(pending) :
                         bookConsultationSettles(request, Resolved(TRUE, Undefined))
                   /\ last'.alert = AlertBooked
                   /\ ~isLoading')

C12_Witness ==
    /\ last.alert = "slot taken"
    /\ isLoading
    /\ InFlight = 1

\* C13: a run of handleBooking invokes the port at most once, and exactly
\* once when the draft is valid and a user is signed in; a run that ends on
\* an outcome of the port leaves no new call behind it.
C13_NoRetry ==
    /\ [][/\ BagCardinality(pending') <= BagCardinality(pending) + 1
          /\ (last' # last /\ last'.result.kind # "none" =>
                 BagCardinality(pending') = BagCardinality(pending) - 1)
          /\ (canSubmit /\ currentUser # Null => ~ReturnsAtOnce)]_vars
    /\ [](/\ last.invoked <= 1
          /\ last.result.kind # "none" <=> last.invoked = 1)

C13_Witness ==
    /\ PortThrew
    /\ last.invoked = 1
    /\ pending = EmptyBag
    /\ ~isLoading

\* C14: a run that ends in failure (validation, no user, port failure or
\* fault) leaves the nine draft fields as they were and does not leave
\* isLoading set.
C14_FailureKeepsDraft ==
    [][last' # last /\ last'.alert # AlertBooked =>
          /\ UNCHANGED draft
          /\ (isLoading' => isLoading)]_vars

C14_Witness ==
    /\ last.alert = AlertUnexpectedError
    /\ canSubmit
    /\ ~BookButtonDisabled
    /\ consultationType = "presencial"
    /\ notes = "joelho"

\* C15: getNextDays(n) with n >= 0 returns n entries, the k-th being the
\* date k days after the local date of the reference instant, for every
\* time of day and every offset from UTC.
C15_DaysFollowLocalDate ==
    gen.pc = "returned" /\ gen.count >= 0 =>
        /\ Len(gen.days) = gen.count
        /\ \A k \in 1..Len(gen.days) :
              gen.days[k].value =
                  IsoDate(CivilFromDays(LocalDay(gen.now, gen.offset) + k))

\* C16: the stored state field is the upper-cased form of the last value
\* typed into its input; street, number, neighborhood and city are exactly
\* the last value typed.
C16_StateUpperCasedOthersVerbatim ==
    /\ addressState = ToUpperCase(typed.state)
    /\ addressStreet = typed.street
    /\ addressNumber = typed.number
    /\ addressNeighborhood = typed.neighborhood
    /\ addressCity = typed.city

C16_Witness ==
    /\ typed.state = "pe"
    /\ addressState = "PE"
    /\ addressCity = "Recife"

\* C17: a run that fails validation or finds no signed-in user ends
\* without setIsLoading(true) having run.
C17_SubmittingOnlyAfterBothChecks ==
    last.alert \in ValidationAlerts \cup {AlertUserNotFound} => ~last.entered

\* C18: an edit leaves the outstanding calls, isLoading and the last
\* finished run untouched, and a request handed to the port carries the
\* draft as it is at the call.
C18_EditsLeaveRequestInFlight ==
    [][/\ draft' # draft => UNCHANGED <<pending, isLoading, last>>
       /\ \A r \in BagToSet(pending') :
             CopiesIn(r, pending') > CopiesIn(r, pending) =>
                 /\ r.date = selectedDate
                 /\ r.time = selectedTime
                 /\ r.type = consultationType
                 /\ r.notes = notes
                 /\ consultationType = "presencial" =>
                       /\ r.address = addressStreet \o ", " \o addressNumber
                                          \o " - " \o addressNeighborhood
                       /\ r.city = addressCity
                       /\ r.state = addressState]_vars

C18_Witness ==
    /\ isLoading
    /\ consultationType = "online"
    /\ addressStreet = ""
    /\ selectedDate # ""
    /\ \E r \in BagToSet(pending) :
          /\ r.type = "presencial"
          /\ r.address = "Rua A, 12 - Centro"
          /\ r.notes # notes

\* C19: while a call of bookConsultation is outstanding, isLoading is set.
C19_OutstandingImpliesLoading == pending # EmptyBag => isLoading

\* C20: getNextDays with a negative count does not return normally.
C20_NegativeCountFailsFast == gen.count < 0 => gen.pc # "returned"

====
